---- MODULE Spec2Model ----
(***************************************************************************)
(* Model of the downstream connection registry (DownstreamController,      *)
(* src/src/downstream_controller.py) and of the two server-management      *)
(* endpoints in front of it (src/src/api.py).                              *)
(*                                                                         *)
(* The registry runs on one asyncio event loop: the code between two       *)
(* awaits is one atomic step.  A task is suspended while it waits for the  *)
(* registry lock and while a downstream call (connection initialize,       *)
(* list_tools, shutdown, exit-stack close) is outstanding; every such      *)
(* suspension is a task position (pc) here, and the return of the          *)
(* downstream call is the action that resumes the task.                    *)
(***************************************************************************)
EXTENDS Integers, Sequences, FiniteSets, TLC

VARIABLES
    servers_map,        \* DownstreamController._servers_map: control name -> connection
    tools_map,          \* DownstreamController._tools_map: tool control name -> tool
    all_servers_tools,  \* DownstreamController._all_servers_tools: list of (server, tools)
    initialized,        \* DownstreamController._initialized
    configs,            \* DownstreamController.configs
    locked,             \* DownstreamController._asyncio_lock is held
    waiters,            \* tasks suspended in the lock's acquire, first come first
    exit_stack,         \* resources registered in DownstreamController.exit_stack
    released,           \* resources released by exit_stack.aclose(), in release order
    closes,             \* number of exit_stack.aclose() calls made
    conns,              \* every DownstreamMCPServer constructed so far, by identity
    task,               \* the position and locals of every caller
    kits,               \* Composer's server kits: kit name -> enabled servers and tools
    ops,                \* number of operations started (bounds the run)
    addOrder,           \* history: connections in the order their registration completed
    rt                  \* history: observer of an add immediately followed by its remove

vars == <<servers_map, tools_map, all_servers_tools, initialized, configs, locked,
          waiters, exit_stack, released, closes, conns, task, ops, addOrder, rt,
          kits>>

-----------------------------------------------------------------------------
(* Bounds of the model *)

NumTasks == 2
MaxOps == 3
MaxConns == 3

Tasks == 1..NumTasks
Names == {"A", "B"}
ToolNames == {"t1", "t2"}
\* the answers a downstream server can give to list_tools
ToolSeqs == {<< >>, <<"t1">>, <<"t1", "t2">>}
\* the kits Composer holds, and a kit nobody has populated yet
KitNames == {"k1"}

EmptyKit == [servers_enabled |-> {}, tools_enabled |-> {}]

\* the configuration lists a controller can be constructed with
ConfigLists == {<< >>, <<"A", "B">>}

InitErrors == {"ConfigError", "ConnectionError"}
ListErrors == {"ConnectionError"}
ShutdownErrors == {"Exception"}

-----------------------------------------------------------------------------
(* Helpers on sequences and maps *)

Range(s) == {s[i] : i \in DOMAIN s}

MapRemove(m, k) == [x \in DOMAIN m \ {k} |-> m[x]]

\* changed: the put forgets every other key
MapPutReplace(m, k, v) == [x \in {k} |-> v]

\* changed: the put stores nothing
MapPutSkip(m, k, v) == m

MapPut(m, k, v) == [x \in DOMAIN m \cup {k} |-> IF x = k THEN v ELSE m[x]]

EmptyMap == [x \in {} |-> 0]

-----------------------------------------------------------------------------
(* Domain objects: DownstreamMCPServer and DownstreamMCPServerTool *)

\* a tool's control name combines the owning server's control name and the tool's name
control_name(server_control_name, tool_name) == <<server_control_name, tool_name>>

Tool(id, tool_name) ==
    [server_control_name |-> conns[id].name, name |-> tool_name, owner |-> id]

ToolKey(tool) == control_name(tool.server_control_name, tool.name)

\* every tool control name a kit request can carry
ToolKeys == {control_name(n, x) : n \in Names, x \in ToolNames}

\* the value of one DownstreamMCPServer.list_tools() answer
list_tools(id, names) == [i \in 1..Len(names) |-> Tool(id, names[i])]

NewServer(config) ==
    [name |-> config, state |-> "Uninitialized", inits |-> 0, shutdowns |-> 0,
     lists |-> 0, lateLists |-> 0, failed |-> FALSE, removed |-> FALSE]

get_control_name(id) == conns[id].name

-----------------------------------------------------------------------------
(* Read operations of the controller: they take no lock *)

list_all_servers_tools == all_servers_tools

\* changed: the lookup never finds a server
ServerNeverFound(server_control_name) == FALSE

ServerFound(server_control_name) == server_control_name \in DOMAIN servers_map

get_server_by_control_name(server_control_name) ==
    IF ServerFound(server_control_name) THEN servers_map[server_control_name] ELSE 0

ToolFound(tool_control_name) == tool_control_name \in DOMAIN tools_map

get_tool_by_control_name(tool_control_name) == tools_map[tool_control_name]

is_initialized == initialized

-----------------------------------------------------------------------------
(* Writes of the controller's collections *)

\* changed: only the first tool of the list is indexed
PutToolsFirstOnly(m, tools) ==
    IF tools = << >> THEN m
    ELSE [k \in DOMAIN m \cup {ToolKey(tools[1])} |->
             IF k = ToolKey(tools[1]) THEN tools[1] ELSE m[k]]

\* for tool in tools: self._tools_map[tool.control_name] = tool
PutTools(m, tools) ==
    LET keys == {ToolKey(tools[i]) : i \in DOMAIN tools}
        last(k) == CHOOSE i \in DOMAIN tools :
                       /\ ToolKey(tools[i]) = k
                       /\ \A j \in DOMAIN tools : ToolKey(tools[j]) = k => j <= i
    IN  [k \in DOMAIN m \cup keys |-> IF k \in keys THEN tools[last(k)] ELSE m[k]]

\* for tool in tools_to_remove: if tool.control_name in self._tools_map: del ...
DelTools(m, tools) ==
    LET keys == {ToolKey(tools[i]) : i \in DOMAIN tools}
    IN  [k \in DOMAIN m \ keys |-> m[k]]

\* changed: the pair is appended twice
AppendPairTwice(list, id, tools) ==
    Append(Append(list, [server |-> id, tools |-> tools]), [server |-> id, tools |-> tools])

\* changed: the pair is inserted at the front
PrependPair(list, id, tools) == <<[server |-> id, tools |-> tools]>> \o list

\* self._all_servers_tools.append((server, tools))
AppendPair(list, id, tools) == Append(list, [server |-> id, tools |-> tools])

\* [(s, t) for s, t in self._all_servers_tools if s != server]
FilterServer(list, id) ==
    LET Keep(p) == p.server # id IN SelectSeq(list, Keep)

RECURSIVE Reverse(_)
Reverse(s) == IF s = << >> THEN << >> ELSE Append(Reverse(Tail(s)), Head(s))

-----------------------------------------------------------------------------
(* The endpoints' mapping of an outcome to an HTTP status (api.py) *)

IsHTTPException(exc) == exc \in {"HTTP409", "HTTP404"}

HTTPStatus(exc) == IF exc = "HTTP409" THEN 409 ELSE 404

\* changed: no `except HTTPException: raise`, every exception becomes 500
add_new_server_status_catch_all(exc) == IF exc = "ok" THEN 201 ELSE 500

\* try: ... return 201 / except HTTPException: raise / except Exception: raise 500
add_new_server_status(exc) ==
    IF exc = "ok" THEN 201
    ELSE IF IsHTTPException(exc) THEN HTTPStatus(exc)
    ELSE 500

\* try: ... return 200 / except HTTPException: raise / except Exception: raise 500
remove_existing_server_status(exc) ==
    IF exc = "ok" THEN 200
    ELSE IF IsHTTPException(exc) THEN HTTPStatus(exc)
    ELSE 500

-----------------------------------------------------------------------------
(* Tasks *)

IdleTask ==
    [pc |-> "idle", op |-> "none", via |-> "none", arg |-> "", server |-> 0,
     idx |-> 0, result |-> "none", response |-> 0, exists |-> "unchecked",
     calls |-> 0, captured |-> << >>]

\* the positions at which a task is inside `async with self._asyncio_lock`
CriticalPcs == {"add_init", "add_list", "rm_shutdown", "rm_list",
                "init_init", "init_list", "sd_shutdown", "sd_close"}

InCriticalSection(t) == task[t].pc \in CriticalPcs

\* the operation ends: normally (exc = "ok") or by raising exc
Finish(rec, exc) ==
    [rec EXCEPT !.pc = "done",
                !.result = exc,
                !.response = IF rec.via # "api" THEN 0
                             ELSE IF rec.op = "add" THEN add_new_server_status(exc)
                             ELSE remove_existing_server_status(exc)]

\* connections a started operation may still construct
Needs(rec) ==
    IF rec.pc = "wait" /\ rec.op = "add" THEN 1
    ELSE IF rec.pc = "wait" /\ rec.op = "initialize" THEN Len(configs)
    ELSE IF rec.pc \in {"init_init", "init_list"} THEN Len(configs) - rec.idx
    ELSE 0

RECURSIVE Reserved(_)
Reserved(n) == IF n = 0 THEN 0 ELSE Needs(task[n]) + Reserved(n - 1)

CanConstruct(k) == Len(conns) + Reserved(NumTasks) + k <= MaxConns

-----------------------------------------------------------------------------
(* History: an add_server immediately followed by remove_server of the same name *)

RtNone == [phase |-> "none", name |-> "", pre |-> << >>]

Registry == <<servers_map, tools_map, all_servers_tools>>

\* no server key, tool key or list entry collides with a new server named n
NoCollision(n) ==
    /\ n \notin DOMAIN servers_map
    /\ \A k \in DOMAIN tools_map : k[1] # n
    /\ \A i \in DOMAIN all_servers_tools : conns[all_servers_tools[i].server].name # n

-----------------------------------------------------------------------------
(* The state after construction: DownstreamController.__init__ *)

Init ==
    /\ servers_map = EmptyMap
    /\ tools_map = EmptyMap
    /\ all_servers_tools = << >>
    /\ initialized = FALSE
    /\ configs \in ConfigLists
    /\ locked = FALSE
    /\ waiters = << >>
    /\ exit_stack = << >>
    /\ released = << >>
    /\ closes = 0
    /\ conns = << >>
    /\ task = [t \in Tasks |-> IdleTask]
    /\ ops = 0
    /\ addOrder = << >>
    /\ rt = RtNone
    /\ kits = [k \in KitNames |-> EmptyKit]

-----------------------------------------------------------------------------
(* The registry lock: asyncio.Lock, first come first served *)

\* changed: acquire() never waits
FastPathNoLock == TRUE

\* acquire() returns at once: the lock is free and nobody waits for it
FastPath == ~locked /\ waiters = << >>

\* changed: the first waiter is resumed although the lock is held
WokenWhileHeld(t) == waiters # << >> /\ Head(waiters) = t

\* a waiter is resumed: the lock is free and the waiter is first in line
Woken(t) == ~locked /\ waiters # << >> /\ Head(waiters) = t

-----------------------------------------------------------------------------
(* Entering the critical section: the code from `async with` to its first await *)

\* add_server, lines 67-68: construct the server, call server.initialize
BeginAdd(t, rec) ==
    /\ locked' = TRUE
    /\ conns' = Append(conns, [NewServer(rec.arg) EXCEPT !.inits = 1])
    /\ task' = [task EXCEPT ![t] = [rec EXCEPT !.pc = "add_init",
                                               !.server = Len(conns) + 1]]
    /\ rt' = IF NoCollision(rec.arg)
             THEN [phase |-> "adding", name |-> rec.arg, pre |-> Registry]
             ELSE RtNone
    /\ UNCHANGED <<servers_map, initialized>>

\* changed: no membership test, the pop of an absent name raises
RemoveAbsentRaises(t, rec) ==
    /\ locked' = FALSE
    /\ task' = [task EXCEPT ![t] = Finish(rec, "KeyError")]
    /\ rt' = RtNone
    /\ UNCHANGED <<conns, servers_map, initialized>>

\* remove_server, lines 81-83: the name is absent, return
RemoveAbsent(t, rec) ==
    /\ locked' = FALSE
    /\ task' = [task EXCEPT ![t] = Finish(rec, "ok")]
    /\ rt' = RtNone
    /\ UNCHANGED <<conns, servers_map, initialized>>

\* the tool list stored with connection id's pair when it was added
CapturedTools(id) ==
    IF \E i \in DOMAIN all_servers_tools : all_servers_tools[i].server = id
    THEN all_servers_tools[CHOOSE i \in DOMAIN all_servers_tools :
                               all_servers_tools[i].server = id].tools
    ELSE << >>

\* remove_server, lines 81-86: return if absent, else pop and call server.shutdown
BeginRemove(t, rec) ==
    IF rec.arg \notin DOMAIN servers_map
    THEN RemoveAbsent(t, rec)
    ELSE LET id == servers_map[rec.arg] IN
         /\ locked' = TRUE
         /\ servers_map' = MapRemove(servers_map, rec.arg)
         /\ conns' = [conns EXCEPT ![id].shutdowns = @ + 1]
         /\ task' = [task EXCEPT ![t] = [rec EXCEPT !.pc = "rm_shutdown",
                                                    !.server = id,
                                                    !.captured = CapturedTools(id)]]
         /\ rt' = IF rt.phase = "added" /\ rt.name = rec.arg
                  THEN [rt EXCEPT !.phase = "removing"]
                  ELSE RtNone
         /\ UNCHANGED initialized

\* initialize, lines 25-27 and 39-40: register the first config, or finish at once
BeginInitialize(t, rec) ==
    /\ rt' = RtNone
    /\ IF configs = << >>
       THEN /\ initialized' = TRUE
            /\ locked' = FALSE
            /\ task' = [task EXCEPT ![t] = Finish(rec, "ok")]
            /\ UNCHANGED <<conns, servers_map>>
       ELSE /\ locked' = TRUE
            /\ conns' = Append(conns, [NewServer(configs[1]) EXCEPT !.inits = 1])
            /\ task' = [task EXCEPT ![t] = [rec EXCEPT !.pc = "init_init",
                                                       !.idx = 1,
                                                       !.server = Len(conns) + 1]]
            /\ UNCHANGED <<servers_map, initialized>>

\* shutdown, lines 34-36: call shutdown of the first listed server, or aclose
BeginShutdown(t, rec) ==
    /\ rt' = RtNone
    /\ locked' = TRUE
    /\ IF all_servers_tools = << >>
       THEN /\ task' = [task EXCEPT ![t] = [rec EXCEPT !.pc = "sd_close"]]
            /\ UNCHANGED conns
       ELSE LET id == all_servers_tools[1].server IN
            /\ conns' = [conns EXCEPT ![id].shutdowns = @ + 1]
            /\ task' = [task EXCEPT ![t] = [rec EXCEPT !.pc = "sd_shutdown",
                                                       !.idx = 1,
                                                       !.server = id]]
    /\ UNCHANGED <<servers_map, initialized>>

Begin(t, rec) ==
    /\ CASE rec.op = "add" -> BeginAdd(t, rec)
         [] rec.op = "remove" -> BeginRemove(t, rec)
         [] rec.op = "initialize" -> BeginInitialize(t, rec)
         [] rec.op = "shutdown" -> BeginShutdown(t, rec)
    /\ UNCHANGED <<tools_map, all_servers_tools, configs, kits, exit_stack, released,
                   closes, addOrder>>

\* `async with self._asyncio_lock`: enter at once or wait in line
Acquire(t, rec) ==
    IF FastPath
    THEN /\ Begin(t, rec)
         /\ UNCHANGED waiters
    ELSE /\ task' = [task EXCEPT ![t] = [rec EXCEPT !.pc = "wait"]]
         /\ waiters' = Append(waiters, t)
         /\ UNCHANGED <<servers_map, tools_map, all_servers_tools, initialized,
                        configs, kits, locked, exit_stack, released, closes, conns,
                        addOrder, rt>>

\* the operation ends without entering the controller
Answer(t, rec, exc) ==
    /\ task' = [task EXCEPT ![t] = Finish(rec, exc)]
    /\ UNCHANGED <<servers_map, tools_map, all_servers_tools, initialized, configs, kits,
                   locked, waiters, exit_stack, released, closes, conns, addOrder,
                   rt>>

Start(t) ==
    /\ task[t].pc = "idle"
    /\ ops < MaxOps
    /\ ops' = ops + 1

-----------------------------------------------------------------------------
(* Operations called on the controller *)

\* DownstreamController.add_server(config)
CallAddServer(t, n) ==
    /\ Start(t)
    /\ CanConstruct(1)
    /\ Acquire(t, [IdleTask EXCEPT !.op = "add", !.via = "direct", !.arg = n,
                                   !.calls = 1])

\* DownstreamController.remove_server(server_control_name)
CallRemoveServer(t, n) ==
    /\ Start(t)
    /\ Acquire(t, [IdleTask EXCEPT !.op = "remove", !.via = "direct", !.arg = n,
                                   !.calls = 1])

\* DownstreamController.initialize()
CallInitialize(t) ==
    /\ Start(t)
    /\ CanConstruct(Len(configs))
    /\ Acquire(t, [IdleTask EXCEPT !.op = "initialize", !.via = "direct",
                                   !.calls = 1])

\* DownstreamController.shutdown()
CallShutdown(t) ==
    /\ Start(t)
    /\ Acquire(t, [IdleTask EXCEPT !.op = "shutdown", !.via = "direct",
                                   !.calls = 1])

\* POST /servers/: add_new_server(config)
ApiAddNewServer(t, n) ==
    /\ Start(t)
    /\ IF ServerFound(n)
       THEN Answer(t, [IdleTask EXCEPT !.op = "add", !.via = "api", !.arg = n,
                                       !.exists = "yes"], "HTTP409")
       ELSE /\ CanConstruct(1)
            /\ Acquire(t, [IdleTask EXCEPT !.op = "add", !.via = "api", !.arg = n,
                                           !.exists = "no", !.calls = 1])

\* DELETE /servers/{server_control_name}: remove_existing_server
ApiRemoveExistingServer(t, n) ==
    /\ Start(t)
    /\ IF ~ServerFound(n)
       THEN Answer(t, [IdleTask EXCEPT !.op = "remove", !.via = "api", !.arg = n,
                                       !.exists = "no"], "HTTP404")
       ELSE Acquire(t, [IdleTask EXCEPT !.op = "remove", !.via = "api", !.arg = n,
                                        !.exists = "yes", !.calls = 1])

\* a task waiting for the lock is resumed and enters the critical section
LockAcquired(t) ==
    /\ task[t].pc = "wait"
    /\ Woken(t)
    /\ waiters' = Tail(waiters)
    /\ Begin(t, task[t])
    /\ UNCHANGED ops

\* the caller takes the result; the task can start another operation
Return(t) ==
    /\ task[t].pc = "done"
    /\ task' = [task EXCEPT ![t] = IdleTask]
    /\ UNCHANGED <<servers_map, tools_map, all_servers_tools, initialized, configs, kits,
                   locked, waiters, exit_stack, released, closes, conns, ops,
                   addOrder, rt>>

-----------------------------------------------------------------------------
(* Returns of the downstream calls: each resumes the suspended task *)

\* changed: the exception leaves the call with the lock still held
RaiseHoldingLock(t, exc) ==
    /\ locked' = locked
    /\ task' = [task EXCEPT ![t] = Finish(task[t], exc)]
    /\ rt' = RtNone

\* the exception leaves `async with`: the lock is released and the call raises
Raise(t, exc) ==
    /\ locked' = FALSE
    /\ task' = [task EXCEPT ![t] = Finish(task[t], exc)]
    /\ rt' = RtNone

\* add_server, lines 68-70: server.initialize returned
AddInitOk(t) ==
    LET id == task[t].server IN
    /\ task[t].pc = "add_init"
    /\ conns' = [conns EXCEPT ![id].state = "Initialized", ![id].lists = @ + 1]
    /\ exit_stack' = Append(exit_stack, id)
    /\ servers_map' = MapPut(servers_map, get_control_name(id), id)
    /\ task' = [task EXCEPT ![t].pc = "add_list"]
    /\ UNCHANGED <<tools_map, all_servers_tools, initialized, configs, kits, locked,
                   waiters, released, closes, ops, addOrder, rt>>

\* add_server, line 68: server.initialize raised
AddInitFail(t, exc) ==
    LET id == task[t].server IN
    /\ task[t].pc = "add_init"
    /\ conns' = [conns EXCEPT ![id].failed = TRUE]
    /\ Raise(t, exc)
    /\ UNCHANGED <<servers_map, tools_map, all_servers_tools, initialized, configs, kits,
                   waiters, exit_stack, released, closes, ops, addOrder>>

\* add_server, lines 70-73: server.list_tools returned
AddListOk(t, names) ==
    LET id == task[t].server
        tools == list_tools(id, names) IN
    /\ task[t].pc = "add_list"
    /\ all_servers_tools' = AppendPair(all_servers_tools, id, tools)
    /\ tools_map' = PutTools(tools_map, tools)
    /\ addOrder' = Append(addOrder, id)
    /\ locked' = FALSE
    /\ task' = [task EXCEPT ![t] = Finish(task[t], "ok")]
    /\ rt' = IF rt.phase = "adding" THEN [rt EXCEPT !.phase = "added"] ELSE RtNone
    /\ UNCHANGED <<servers_map, initialized, configs, kits, waiters, exit_stack, released,
                   closes, conns, ops>>

\* add_server, line 70: server.list_tools raised
AddListFail(t, exc) ==
    LET id == task[t].server IN
    /\ task[t].pc = "add_list"
    /\ conns' = [conns EXCEPT ![id].failed = TRUE]
    /\ Raise(t, exc)
    /\ UNCHANGED <<servers_map, tools_map, all_servers_tools, initialized, configs, kits,
                   waiters, exit_stack, released, closes, ops, addOrder>>

\* remove_server, lines 86-97: server.shutdown returned
RemoveShutdownOk(t) ==
    LET id == task[t].server IN
    /\ task[t].pc = "rm_shutdown"
    /\ conns' = [conns EXCEPT ![id].state = "ShutDown", ![id].lists = @ + 1,
                              ![id].lateLists = @ + 1]
    /\ all_servers_tools' = FilterServer(all_servers_tools, id)
    /\ task' = [task EXCEPT ![t].pc = "rm_list"]
    /\ UNCHANGED <<servers_map, tools_map, initialized, configs, kits, locked, waiters,
                   exit_stack, released, closes, ops, addOrder, rt>>

\* remove_server, line 86: server.shutdown raised
RemoveShutdownFail(t, exc) ==
    LET id == task[t].server IN
    /\ task[t].pc = "rm_shutdown"
    /\ conns[id].state # "ShutDown"
    /\ conns' = [conns EXCEPT ![id].failed = TRUE]
    /\ Raise(t, exc)
    /\ UNCHANGED <<servers_map, tools_map, all_servers_tools, initialized, configs, kits,
                   waiters, exit_stack, released, closes, ops, addOrder>>

\* remove_server, lines 97-100: the second server.list_tools returned
RemoveListOk(t, names) ==
    LET id == task[t].server
        tools_to_remove == list_tools(id, names) IN
    /\ task[t].pc = "rm_list"
    /\ tools_map' = DelTools(tools_map, tools_to_remove)
    /\ conns' = [conns EXCEPT ![id].removed = TRUE]
    /\ locked' = FALSE
    /\ task' = [task EXCEPT ![t] = Finish(task[t], "ok")]
    /\ rt' = IF rt.phase = "removing" THEN [rt EXCEPT !.phase = "removed"] ELSE RtNone
    /\ UNCHANGED <<servers_map, all_servers_tools, initialized, configs, kits, waiters,
                   exit_stack, released, closes, ops, addOrder>>

\* remove_server, line 97: the second server.list_tools raised
RemoveListFail(t, exc) ==
    LET id == task[t].server IN
    /\ task[t].pc = "rm_list"
    /\ conns' = [conns EXCEPT ![id].failed = TRUE]
    /\ Raise(t, exc)
    /\ UNCHANGED <<servers_map, tools_map, all_servers_tools, initialized, configs, kits,
                   waiters, exit_stack, released, closes, ops, addOrder>>

\* register_downstream_mcp_server, lines 40-42: server.initialize returned
InitializeInitOk(t) ==
    LET id == task[t].server IN
    /\ task[t].pc = "init_init"
    /\ conns' = [conns EXCEPT ![id].state = "Initialized", ![id].lists = @ + 1]
    /\ exit_stack' = Append(exit_stack, id)
    /\ servers_map' = MapPut(servers_map, get_control_name(id), id)
    /\ task' = [task EXCEPT ![t].pc = "init_list"]
    /\ UNCHANGED <<tools_map, all_servers_tools, initialized, configs, kits, locked,
                   waiters, released, closes, ops, addOrder, rt>>

\* register_downstream_mcp_server, line 40: server.initialize raised
InitializeInitFail(t, exc) ==
    LET id == task[t].server IN
    /\ task[t].pc = "init_init"
    /\ conns' = [conns EXCEPT ![id].failed = TRUE]
    /\ Raise(t, exc)
    /\ UNCHANGED <<servers_map, tools_map, all_servers_tools, initialized, configs, kits,
                   waiters, exit_stack, released, closes, ops, addOrder>>

\* lines 42-45, then the next config (lines 25-26, 39-40) or line 27
InitializeListOk(t, names) ==
    LET id == task[t].server
        tools == list_tools(id, names)
        k == task[t].idx IN
    /\ task[t].pc = "init_list"
    /\ all_servers_tools' = AppendPair(all_servers_tools, id, tools)
    /\ tools_map' = PutTools(tools_map, tools)
    /\ addOrder' = Append(addOrder, id)
    /\ IF k < Len(configs)
       THEN /\ conns' = Append(conns, [NewServer(configs[k + 1]) EXCEPT !.inits = 1])
            /\ task' = [task EXCEPT ![t].pc = "init_init", ![t].idx = k + 1,
                                    ![t].server = Len(conns) + 1]
            /\ UNCHANGED <<initialized, locked>>
       ELSE /\ initialized' = TRUE
            /\ locked' = FALSE
            /\ task' = [task EXCEPT ![t] = Finish(task[t], "ok")]
            /\ UNCHANGED conns
    /\ UNCHANGED <<servers_map, configs, kits, waiters, exit_stack, released, closes, ops,
                   rt>>

\* register_downstream_mcp_server, line 42: server.list_tools raised
InitializeListFail(t, exc) ==
    LET id == task[t].server IN
    /\ task[t].pc = "init_list"
    /\ conns' = [conns EXCEPT ![id].failed = TRUE]
    /\ Raise(t, exc)
    /\ UNCHANGED <<servers_map, tools_map, all_servers_tools, initialized, configs, kits,
                   waiters, exit_stack, released, closes, ops, addOrder>>

\* shutdown, lines 34-36: server.shutdown returned; next server, or aclose
ShutdownServerOk(t) ==
    LET id == task[t].server
        k == task[t].idx IN
    /\ task[t].pc = "sd_shutdown"
    /\ IF k < Len(all_servers_tools)
       THEN LET next == all_servers_tools[k + 1].server IN
            /\ conns' = [[conns EXCEPT ![id].state = "ShutDown"]
                            EXCEPT ![next].shutdowns = @ + 1]
            /\ task' = [task EXCEPT ![t].idx = k + 1, ![t].server = next]
       ELSE /\ conns' = [conns EXCEPT ![id].state = "ShutDown"]
            /\ task' = [task EXCEPT ![t].pc = "sd_close", ![t].server = 0]
    /\ UNCHANGED <<servers_map, tools_map, all_servers_tools, initialized, configs, kits,
                   locked, waiters, exit_stack, released, closes, ops, addOrder, rt>>

\* shutdown, line 35: server.shutdown raised; aclose is not reached
ShutdownServerFail(t, exc) ==
    LET id == task[t].server IN
    /\ task[t].pc = "sd_shutdown"
    /\ conns[id].state # "ShutDown"
    /\ conns' = [conns EXCEPT ![id].failed = TRUE]
    /\ Raise(t, exc)
    /\ UNCHANGED <<servers_map, tools_map, all_servers_tools, initialized, configs, kits,
                   waiters, exit_stack, released, closes, ops, addOrder>>

\* shutdown, line 36: exit_stack.aclose() returned, resources released last-in first-out
ShutdownCloseOk(t) ==
    /\ task[t].pc = "sd_close"
    /\ released' = released \o Reverse(exit_stack)
    /\ exit_stack' = << >>
    /\ closes' = closes + 1
    /\ locked' = FALSE
    /\ task' = [task EXCEPT ![t] = Finish(task[t], "ok")]
    /\ UNCHANGED <<servers_map, tools_map, all_servers_tools, initialized, configs, kits,
                   waiters, conns, ops, addOrder, rt>>

-----------------------------------------------------------------------------
(* The specification *)

Next ==
    \E t \in Tasks :
        \/ \E n \in Names : CallAddServer(t, n)
        \/ \E n \in Names : CallRemoveServer(t, n)
        \/ CallInitialize(t)
        \/ CallShutdown(t)
        \/ \E n \in Names : ApiAddNewServer(t, n)
        \/ \E n \in Names : ApiRemoveExistingServer(t, n)
        \/ LockAcquired(t)
        \/ AddInitOk(t)
        \/ \E e \in InitErrors : AddInitFail(t, e)
        \/ \E names \in ToolSeqs : AddListOk(t, names)
        \/ \E e \in ListErrors : AddListFail(t, e)
        \/ RemoveShutdownOk(t)
        \/ \E e \in ShutdownErrors : RemoveShutdownFail(t, e)
        \/ \E names \in ToolSeqs : RemoveListOk(t, names)
        \/ \E e \in ListErrors : RemoveListFail(t, e)
        \/ InitializeInitOk(t)
        \/ \E e \in InitErrors : InitializeInitFail(t, e)
        \/ \E names \in ToolSeqs : InitializeListOk(t, names)
        \/ \E e \in ListErrors : InitializeListFail(t, e)
        \/ ShutdownServerOk(t)
        \/ \E e \in ShutdownErrors : ShutdownServerFail(t, e)
        \/ ShutdownCloseOk(t)
        \/ Return(t)

Spec == Init /\ [][Next]_vars

-----------------------------------------------------------------------------
(* The registry together with Composer's kit operations *)

\* Composer.enable_server(kit, server_name): NotFoundError if not registered
EnableServer(t, k, n) ==
    /\ Start(t)
    /\ kits' = IF ServerFound(n)
               THEN [kits EXCEPT ![k].servers_enabled = @ \cup {n}]
               ELSE kits
    /\ UNCHANGED <<servers_map, tools_map, all_servers_tools, initialized, configs,
                   locked, waiters, exit_stack, released, closes, conns, task,
                   addOrder, rt>>

\* Composer.disable_server(kit, server_name): NotFoundError if not registered
DisableServer(t, k, n) ==
    /\ Start(t)
    /\ kits' = IF ServerFound(n)
               THEN [kits EXCEPT ![k].servers_enabled = @ \ {n}]
               ELSE kits
    /\ UNCHANGED <<servers_map, tools_map, all_servers_tools, initialized, configs,
                   locked, waiters, exit_stack, released, closes, conns, task,
                   addOrder, rt>>

\* Composer.enable_tool(kit, tool_name): NotFoundError if not in the tool index
EnableTool(t, k, key) ==
    /\ Start(t)
    /\ kits' = IF ToolFound(key)
               THEN [kits EXCEPT ![k].tools_enabled = @ \cup {key}]
               ELSE kits
    /\ UNCHANGED <<servers_map, tools_map, all_servers_tools, initialized, configs,
                   locked, waiters, exit_stack, released, closes, conns, task,
                   addOrder, rt>>

\* Composer.disable_tool(kit, tool_name): NotFoundError if not in the tool index
DisableTool(t, k, key) ==
    /\ Start(t)
    /\ kits' = IF ToolFound(key)
               THEN [kits EXCEPT ![k].tools_enabled = @ \ {key}]
               ELSE kits
    /\ UNCHANGED <<servers_map, tools_map, all_servers_tools, initialized, configs,
                   locked, waiters, exit_stack, released, closes, conns, task,
                   addOrder, rt>>

KitStep ==
    \E t \in Tasks, k \in KitNames :
        \/ \E n \in Names : EnableServer(t, k, n)
        \/ \E n \in Names : DisableServer(t, k, n)
        \/ \E key \in ToolKeys : EnableTool(t, k, key)
        \/ \E key \in ToolKeys : DisableTool(t, k, key)

KitNext == Next \/ KitStep

KitSpec == Init /\ [][KitNext]_vars

-----------------------------------------------------------------------------
(* Shared vocabulary of the properties *)

\* the connections constructed so far have pairwise distinct control names
DistinctNames ==
    \A i, j \in DOMAIN conns : i # j => conns[i].name # conns[j].name

\* no downstream call has raised so far
NoFailure == \A i \in DOMAIN conns : ~conns[i].failed

\* no mutation is inside its critical section
Quiescent == \A t \in Tasks : ~InCriticalSection(t)

\* the connections currently registered in the server map
Registered == {servers_map[n] : n \in DOMAIN servers_map}

\* the tool control names captured with the pairs of the registered servers
RegisteredToolKeys ==
    UNION {{ToolKey(all_servers_tools[i].tools[k]) :
                k \in DOMAIN all_servers_tools[i].tools} :
           i \in {j \in DOMAIN all_servers_tools :
                      all_servers_tools[j].server \in Registered}}

-----------------------------------------------------------------------------
(* C1: with pairwise distinct control names, after every add_server and    *)
(* remove_server call that completed, the key set of the tool index equals *)
(* the union of the tool control names of the registered servers.          *)
C1_ToolIndexMatchesServers ==
    (DistinctNames /\ NoFailure /\ Quiescent)
        => DOMAIN tools_map = RegisteredToolKeys

-----------------------------------------------------------------------------
(* C2: at most one of initialize, add_server, remove_server and shutdown   *)
(* is inside its critical section at any time, also while one of them is   *)
(* suspended on downstream I/O; whoever is inside holds the lock.          *)
C2_MutualExclusion ==
    /\ Cardinality({t \in Tasks : InCriticalSection(t)}) <= 1
    /\ (\E t \in Tasks : InCriticalSection(t)) => locked

\* a mutation is suspended on downstream I/O while another caller waits for the lock
C2_Witness ==
    \E t, u \in Tasks :
        /\ task[t].pc \in {"add_list", "rm_shutdown", "init_list", "sd_close"}
        /\ task[u].pc = "wait"

-----------------------------------------------------------------------------
(* The event loop runs every task that can run: a task that is woken with  *)
(* the lock, or whose downstream call has answered, is resumed.            *)

Proceed(t) ==
    \/ LockAcquired(t)
    \/ AddInitOk(t)
    \/ \E e \in InitErrors : AddInitFail(t, e)
    \/ \E names \in ToolSeqs : AddListOk(t, names)
    \/ \E e \in ListErrors : AddListFail(t, e)
    \/ RemoveShutdownOk(t)
    \/ \E e \in ShutdownErrors : RemoveShutdownFail(t, e)
    \/ \E names \in ToolSeqs : RemoveListOk(t, names)
    \/ \E e \in ListErrors : RemoveListFail(t, e)
    \/ InitializeInitOk(t)
    \/ \E e \in InitErrors : InitializeInitFail(t, e)
    \/ \E names \in ToolSeqs : InitializeListOk(t, names)
    \/ \E e \in ListErrors : InitializeListFail(t, e)
    \/ ShutdownServerOk(t)
    \/ \E e \in ShutdownErrors : ShutdownServerFail(t, e)
    \/ ShutdownCloseOk(t)

FairSpec == Spec /\ \A t \in Tasks : WF_vars(Proceed(t))

-----------------------------------------------------------------------------
(* C3: concurrent add_server calls with pairwise distinct control names,   *)
(* none of whose downstream calls fails, all complete, and once all have   *)
(* completed every control name is exactly once in the server map and      *)
(* exactly once in list_all_servers_tools.                                 *)

\* every add that was started has completed, and nothing was removed or shut down
AllAddsCompleted ==
    /\ Quiescent
    /\ \A t \in Tasks : ~(task[t].pc = "wait" /\ task[t].op \in {"add", "initialize"})
    /\ \A i \in DOMAIN conns : conns[i].shutdowns = 0

C3_ExactlyOnce ==
    (DistinctNames /\ NoFailure /\ AllAddsCompleted) =>
        /\ Cardinality(DOMAIN servers_map) = Len(conns)
        /\ Len(list_all_servers_tools) = Len(conns)
        /\ \A i \in DOMAIN conns :
              /\ get_server_by_control_name(conns[i].name) = i
              /\ Cardinality({k \in DOMAIN list_all_servers_tools :
                                 list_all_servers_tools[k].server = i}) = 1
              /\ Cardinality({k \in DOMAIN list_all_servers_tools :
                                 get_control_name(list_all_servers_tools[k].server)
                                     = conns[i].name}) = 1

C3_ConcurrentAdds ==
    /\ []C3_ExactlyOnce
    /\ \A t \in Tasks :
          (task[t].op = "add" /\ task[t].pc \in {"wait", "add_init", "add_list"})
              ~> (task[t].pc = "done")

\* two add_server calls with different names have both completed successfully
C3_Witness ==
    \E t, u \in Tasks :
        /\ t # u
        /\ task[t].pc = "done" /\ task[t].op = "add" /\ task[t].result = "ok"
        /\ task[u].pc = "done" /\ task[u].op = "add" /\ task[u].result = "ok"
        /\ task[t].arg # task[u].arg
        /\ DistinctNames /\ NoFailure /\ AllAddsCompleted
        /\ Len(list_all_servers_tools) = 2

-----------------------------------------------------------------------------
(* C4: from a registry state without a colliding key, add_server(c)        *)
(* immediately followed by remove_server(c's control name) leaves the      *)
(* server map, the tool index and list_all_servers_tools as before the add.*)
C4_AddRemoveRoundTrip ==
    rt.phase = "removed" => Registry = rt.pre

-----------------------------------------------------------------------------
(* C5: remove_server with a control name that is not in the server map     *)
(* returns without raising, makes no downstream call and leaves the server *)
(* map, the tool index and the list of pairs unchanged.                    *)

\* task t enters remove_server's critical section in this step
EntersRemove(t) ==
    /\ task[t].pc \in {"idle", "wait"}
    /\ task'[t].pc \notin {"idle", "wait"}
    /\ task'[t].op = "remove"
    /\ task'[t].calls = 1

C5_RemoveAbsentIsNoOp ==
    [][\A t \in Tasks :
          (EntersRemove(t) /\ task'[t].arg \notin DOMAIN servers_map) =>
              /\ task'[t].pc = "done"
              /\ task'[t].result = "ok"
              /\ UNCHANGED <<servers_map, tools_map, all_servers_tools, conns,
                             exit_stack, locked>>]_vars

\* remove_server of an absent name has returned while another server is registered
C5_Witness ==
    \E t \in Tasks :
        /\ task[t].pc = "done" /\ task[t].op = "remove" /\ task[t].calls = 1
        /\ task[t].server = 0 /\ task[t].result = "ok"
        /\ task[t].arg \notin DOMAIN servers_map
        /\ servers_map # EmptyMap
        /\ tools_map # EmptyMap

-----------------------------------------------------------------------------
(* C6: list_all_servers_tools keeps registration order: the surviving      *)
(* pairs are in the relative order in which they were added, the pair of   *)
(* every removed server is gone, and a server nobody removed or shut down  *)
(* is still listed.                                                        *)

\* the position at which connection id completed its registration
AddRank(id) == CHOOSE k \in DOMAIN addOrder : addOrder[k] = id

C6_RegistrationOrder ==
    LET list == list_all_servers_tools IN
    /\ \A i \in DOMAIN list : list[i].server \in Range(addOrder)
    /\ \A i, j \in DOMAIN list :
          i < j => AddRank(list[i].server) < AddRank(list[j].server)
    /\ \A i \in DOMAIN list :
          /\ ~conns[list[i].server].removed
          /\ \A k \in DOMAIN list[i].tools : list[i].tools[k].owner = list[i].server
    /\ \A k \in DOMAIN addOrder :
          conns[addOrder[k]].shutdowns = 0 =>
              \E i \in DOMAIN list : list[i].server = addOrder[k]

\* add A, add B, remove A: only B's pair is left
C6_Witness ==
    /\ Len(addOrder) = 2
    /\ conns[addOrder[1]].removed
    /\ Len(list_all_servers_tools) = 1
    /\ list_all_servers_tools[1].server = addOrder[2]
    /\ Quiescent

-----------------------------------------------------------------------------
(* C7: POST /servers/ answers 409 without calling add_server when the      *)
(* control name is registered; otherwise it calls add_server exactly once  *)
(* with that config and answers 201.                                       *)

ApiAddDone(t) ==
    task[t].pc = "done" /\ task[t].via = "api" /\ task[t].op = "add"

\* the claim as stated: a request that found no server always answers 201
C7_AddAnswersConflictOrSuccess ==
    \A t \in Tasks :
        ApiAddDone(t) =>
            /\ task[t].exists = "yes" => (task[t].response = 409 /\ task[t].calls = 0)
            /\ task[t].exists = "no" => (task[t].response = 201 /\ task[t].calls = 1)

\* task t starts a POST /servers/ request in this step
StartsApiAdd(t) ==
    /\ task[t].pc = "idle"
    /\ task'[t].pc # "idle"
    /\ task'[t].via = "api"
    /\ task'[t].op = "add"

\* amended: 201 when add_server returns, 500 when it raises
C7_AddAnswersConflictOrCallsOnce ==
    /\ [][\A t \in Tasks :
             StartsApiAdd(t) =>
                 IF task'[t].arg \in DOMAIN servers_map
                 THEN /\ task'[t].pc = "done"
                      /\ task'[t].response = 409
                      /\ task'[t].calls = 0
                      /\ UNCHANGED <<servers_map, tools_map, all_servers_tools,
                                     conns, locked, waiters>>
                 ELSE /\ task'[t].calls = 1
                      /\ task'[t].pc \in {"wait", "add_init"}]_vars
    /\ [](\A t \in Tasks :
             ApiAddDone(t) =>
                 /\ task[t].calls <= 1
                 /\ task[t].calls = 1 =>
                       /\ task[t].server # 0
                       /\ conns[task[t].server].name = task[t].arg
                       /\ task[t].response = IF task[t].result = "ok" THEN 201 ELSE 500)

\* both outcomes of the existence check have been answered
C7_Witness ==
    \E t, u \in Tasks :
        /\ ApiAddDone(t) /\ task[t].response = 409 /\ task[t].calls = 0
        /\ ApiAddDone(u) /\ task[u].response = 201 /\ task[u].calls = 1

-----------------------------------------------------------------------------
(* C8: DELETE /servers/{name} answers 404 without calling remove_server    *)
(* when the name is not registered; whenever it answers 200 a server with  *)
(* that name was registered and has been removed by this request.          *)

ApiRemoveDone(t) ==
    task[t].pc = "done" /\ task[t].via = "api" /\ task[t].op = "remove"

C8_RemoveAnswersNotFoundOrRemoves ==
    \A t \in Tasks :
        ApiRemoveDone(t) =>
            /\ task[t].exists = "no" => (task[t].response = 404 /\ task[t].calls = 0)
            /\ task[t].response = 200 =>
                  /\ task[t].server # 0
                  /\ conns[task[t].server].name = task[t].arg
                  /\ conns[task[t].server].removed

-----------------------------------------------------------------------------
(* C9: in both endpoints every exception raised by add_server or           *)
(* remove_server is answered 500, and the 409 and 404 of the existence     *)
(* check are never turned into 500.                                        *)
C9_ErrorMapping ==
    \A t \in Tasks :
        (task[t].pc = "done" /\ task[t].via = "api") =>
            /\ (task[t].calls = 1 /\ task[t].result # "ok") => task[t].response = 500
            /\ (task[t].calls = 0 /\ task[t].op = "add") => task[t].response = 409
            /\ (task[t].calls = 0 /\ task[t].op = "remove") => task[t].response = 404

\* a failed add_server was answered 500 and a duplicate was answered 409
C9_Witness ==
    \E t, u \in Tasks :
        /\ ApiAddDone(t) /\ task[t].calls = 1
        /\ task[t].result \in InitErrors \cup ListErrors /\ task[t].response = 500
        /\ ApiAddDone(u) /\ task[u].calls = 0 /\ task[u].response = 409

-----------------------------------------------------------------------------
(* C10: when add_server(config) returns, the new connection has been       *)
(* initialized exactly once against the shared scope, the server map       *)
(* returns it under the config's control name, its pair is the last        *)
(* element of list_all_servers_tools and the tool index returns the tool   *)
(* for every tool control name of that pair.                               *)

\* task t's add_server returns normally in this step
AddReturns(t) ==
    /\ task[t].op = "add"
    /\ task[t].pc = "add_list"
    /\ task'[t].pc = "done"
    /\ task'[t].result = "ok"

C10_AddPostcondition ==
    [][\A t \in Tasks :
          AddReturns(t) =>
              LET id == task[t].server
                  list == list_all_servers_tools'
                  last == list[Len(list)] IN
              /\ conns'[id].inits = 1
              /\ conns'[id].state = "Initialized"
              /\ Cardinality({k \in DOMAIN exit_stack' : exit_stack'[k] = id}) = 1
              /\ conns'[id].name = task[t].arg
              /\ task[t].arg \in DOMAIN servers_map'
              /\ servers_map'[task[t].arg] = id
              /\ list # << >>
              /\ last.server = id
              /\ \A k \in DOMAIN last.tools :
                    /\ ToolKey(last.tools[k]) \in DOMAIN tools_map'
                    /\ tools_map'[ToolKey(last.tools[k])] \in Range(last.tools)
                    /\ ToolKey(tools_map'[ToolKey(last.tools[k])])
                           = ToolKey(last.tools[k])]_vars

\* an add_server that registered two tools has returned behind an earlier server
C10_Witness ==
    \E t \in Tasks :
        /\ task[t].pc = "done" /\ task[t].op = "add" /\ task[t].result = "ok"
        /\ Len(list_all_servers_tools) = 2
        /\ list_all_servers_tools[2].server = task[t].server
        /\ Len(list_all_servers_tools[2].tools) = 2
        /\ get_server_by_control_name(task[t].arg) = task[t].server

-----------------------------------------------------------------------------
(* C11: when remove_server(name) returns for a registered name, that       *)
(* connection's shutdown has been invoked exactly once, the server map no  *)
(* longer finds the name, no pair of the connection is listed and the tool *)
(* index finds none of the tool control names the server contributed when  *)
(* it was added.                                                           *)

\* task t's remove_server of a registered name returns normally in this step
RemoveReturns(t) ==
    /\ task[t].op = "remove"
    /\ task[t].pc = "rm_list"
    /\ task'[t].pc = "done"
    /\ task'[t].result = "ok"

C11_RemovePostcondition ==
    [][\A t \in Tasks :
          RemoveReturns(t) =>
              LET id == task[t].server IN
              /\ conns'[id].shutdowns = 1
              /\ task[t].arg \notin DOMAIN servers_map'
              /\ \A i \in DOMAIN all_servers_tools' :
                    all_servers_tools'[i].server # id
              /\ \A k \in DOMAIN task[t].captured :
                    ToolKey(task[t].captured[k]) \notin DOMAIN tools_map']_vars

-----------------------------------------------------------------------------
(* C12: remove_server purges the tool index with the tool list captured at *)
(* add time: list_tools is never called on a connection after that         *)
(* connection's shutdown has been invoked.                                 *)
C12_NoListToolsAfterShutdown ==
    \A i \in DOMAIN conns : conns[i].lateLists = 0

-----------------------------------------------------------------------------
(* C13: shutdown() invokes shutdown on every listed connection and then    *)
(* closes the shared resource scope; the scope is closed on every          *)
(* execution of shutdown(), also when a connection's shutdown fails.       *)

\* task t's shutdown() ends in this step, by returning or by raising
ShutdownEnds(t) ==
    /\ task[t].op = "shutdown"
    /\ task[t].pc \in {"sd_shutdown", "sd_close"}
    /\ task'[t].pc = "done"

C13_ShutdownClosesScope ==
    [][\A t \in Tasks :
          ShutdownEnds(t) =>
              /\ closes' = closes + 1
              /\ exit_stack' = << >>
              /\ \A k \in DOMAIN exit_stack : exit_stack[k] \in Range(released')]_vars

-----------------------------------------------------------------------------
(* C14: after any sequence of add_server and remove_server calls, adds     *)
(* that reuse a registered control name included, every tool in the tool   *)
(* index belongs to a connection that is present in the server map.        *)
(* Stated for the runs in which no downstream call has raised and no       *)
(* remove_server has completed, and at the states where no mutation is in  *)
(* flight: the claim covers them, and they leave the reuse of a name as    *)
(* the only way to break it.                                               *)
C14_IndexedToolsAreRegistered ==
    (Quiescent /\ NoFailure /\ \A i \in DOMAIN conns : ~conns[i].removed) =>
        \A k \in DOMAIN tools_map : tools_map[k].owner \in Registered

-----------------------------------------------------------------------------
(* C19: over any sequence of remove_server and shutdown() calls the        *)
(* registry invokes shutdown on each connection at most once, and releases *)
(* no resource a second time. Stated for the runs in which no downstream   *)
(* call has raised, so that no repeated call is a retry after a failure.   *)
C19_ShutdownAtMostOnce ==
    NoFailure =>
        /\ \A i \in DOMAIN conns : conns[i].shutdowns <= 1
        /\ \A j, k \in DOMAIN released : j # k => released[j] # released[k]

-----------------------------------------------------------------------------
(* C20: whenever no mutation is in flight, after any sequence of           *)
(* add_server and remove_server calls, successful or failed, with or       *)
(* without repeated control names, the control names of the listed         *)
(* connections are exactly the keys of the server map, each name is listed *)
(* once, and each listed connection is the one the map holds under its     *)
(* name.                                                                   *)
C20_ListMatchesServerMap ==
    Quiescent =>
        LET list == list_all_servers_tools IN
        /\ {get_control_name(list[i].server) : i \in DOMAIN list} = DOMAIN servers_map
        /\ \A i, j \in DOMAIN list :
              i # j => get_control_name(list[i].server) # get_control_name(list[j].server)
        /\ \A i \in DOMAIN list :
              get_server_by_control_name(get_control_name(list[i].server)) = list[i].server

-----------------------------------------------------------------------------
(* C15: initialize() registers the configured servers one at a time in     *)
(* configuration order; when a downstream call made for the k-th config    *)
(* raises, the failure propagates out of initialize(), no connection is    *)
(* constructed for a later config, the servers registered from configs     *)
(* 1..k-1 remain in the server map, the list and the tool index, and       *)
(* is_initialized() keeps its value (false on a first initialize).         *)

\* a downstream call made by task t for its current config raises in this step
KthConfigFails(t) ==
    /\ task[t].op = "initialize"
    /\ task[t].pc \in {"init_init", "init_list"}
    /\ ~conns[task[t].server].failed
    /\ conns'[task[t].server].failed

\* connection id is in the server map, has a pair in the list and has the
\* tools of that pair in the tool index
FullyRegistered(id, map, list, index) ==
    /\ get_control_name(id) \in DOMAIN map
    /\ map[get_control_name(id)] = id
    /\ \E i \in DOMAIN list :
          /\ list[i].server = id
          /\ \A k \in DOMAIN list[i].tools :
                /\ ToolKey(list[i].tools[k]) \in DOMAIN index
                /\ index[ToolKey(list[i].tools[k])] = list[i].tools[k]

C15_InitializeStopsAtFirstFailure ==
    [][\A t \in Tasks :
          KthConfigFails(t) =>
              LET k  == task[t].idx
                  id == task[t].server IN
              /\ get_control_name(id) = configs[k]
              /\ task'[t].pc = "done"
              /\ task'[t].result \in InitErrors \cup ListErrors
              /\ Len(conns') = id
              /\ initialized' = initialized
              /\ \A j \in 1..(k - 1) :
                    /\ get_control_name(id - (k - j)) = configs[j]
                    /\ FullyRegistered(id - (k - j), servers_map',
                                       all_servers_tools', tools_map')
              /\ \A i, j \in DOMAIN all_servers_tools' :
                    (/\ i < j
                     /\ all_servers_tools'[i].server > id - k
                     /\ all_servers_tools'[j].server > id - k)
                       => all_servers_tools'[i].server < all_servers_tools'[j].server]_vars

\* initialize() has failed on its second config after list_tools answered
\* for it was awaited; the first configured server is still registered
C15_Witness ==
    \E t \in Tasks :
        /\ task[t].op = "initialize"
        /\ task[t].pc = "done"
        /\ task[t].result \in ListErrors
        /\ task[t].idx = 2
        /\ conns[task[t].server].lists = 1
        /\ ~is_initialized
        /\ FullyRegistered(task[t].server - 1, servers_map, all_servers_tools,
                           tools_map)
        /\ all_servers_tools[Len(all_servers_tools)].tools # << >>

-----------------------------------------------------------------------------
(* C17: the lock is held across the downstream calls of a mutation. While  *)
(* a task is suspended on a downstream call inside its critical section    *)
(* (connection initialize, list_tools, shutdown), no step of another task  *)
(* enters a critical section or completes a call of initialize,            *)
(* add_server, remove_server or shutdown; so if the downstream call never  *)
(* returns, none ever does.                                                *)

\* task u enters its critical section, or its call on the registry ends, in this step
EntersOrCompletes(u) ==
    \/ task[u].pc \notin CriticalPcs /\ task'[u].pc \in CriticalPcs
    \/ /\ task[u].pc \in {"idle", "wait"}
       /\ task'[u].pc = "done"
       /\ task'[u].calls = 1

C17_HungCallBlocksMutations ==
    [][\A t, u \in Tasks :
          (t # u /\ InCriticalSection(t) /\ task'[t] = task[t])
              => ~EntersOrCompletes(u)]_vars

\* an add_server is suspended on list_tools for a server that is already in
\* the map, while a shutdown() waits for the lock behind it
C17_Witness ==
    \E t, u \in Tasks :
        /\ task[t].op = "add"
        /\ task[t].pc = "add_list"
        /\ task[u].op = "shutdown"
        /\ task[u].pc = "wait"
        /\ locked
        /\ waiters = <<u>>

-----------------------------------------------------------------------------
(* C18: reads take no lock and can observe a registry in mid-mutation.     *)
(* While add_server is suspended on list_tools,                            *)
(* get_server_by_control_name returns the new connection although the list *)
(* has no pair for it and the tool index holds none of its tools; while    *)
(* remove_server is suspended on the connection's shutdown, the name is    *)
(* absent from the server map but the connection's pair and the tools of   *)
(* that pair are still visible.                                            *)

\* what a reader sees of connection id: found by name, listed, tools indexed
SeenInMap(id) == get_server_by_control_name(get_control_name(id)) = id

SeenInList(id) ==
    \E i \in DOMAIN list_all_servers_tools : list_all_servers_tools[i].server = id

SeenTools(id) == {k \in DOMAIN tools_map : get_tool_by_control_name(k).owner = id}

C18_ReadsSeeIntermediateStates ==
    \A t \in Tasks :
        /\ (task[t].op = "add" /\ task[t].pc = "add_list") =>
              /\ SeenInMap(task[t].server)
              /\ ~SeenInList(task[t].server)
              /\ SeenTools(task[t].server) = {}
        /\ (task[t].pc = "rm_shutdown" /\ task[t].server \in Range(addOrder)) =>
              /\ ~ServerFound(task[t].arg)
              /\ SeenInList(task[t].server)
              /\ \A k \in DOMAIN task[t].captured :
                    ToolFound(ToolKey(task[t].captured[k]))

\* remove_server is suspended on shutdown: the name is gone from the map,
\* the pair is listed and one of the connection's own tools is in the index
C18_Witness ==
    \E t \in Tasks :
        /\ task[t].pc = "rm_shutdown"
        /\ ~ServerFound(task[t].arg)
        /\ SeenInList(task[t].server)
        /\ task[t].captured # << >>
        /\ SeenTools(task[t].server) # {}

\* add_server is suspended on list_tools: the connection is found by name,
\* is not listed and has no tool in the index
C18_AddWitness ==
    \E t \in Tasks :
        /\ task[t].pc = "add_list"
        /\ SeenInMap(task[t].server)
        /\ ~SeenInList(task[t].server)
        /\ SeenTools(task[t].server) = {}

-----------------------------------------------------------------------------
(* C16: when remove_server(name) completes, no ServerKit references the    *)
(* removed server or a tool it contributed: the removal strips the name    *)
(* from every kit's servers_enabled and the server's tool control names    *)
(* from every kit's tools_enabled.                                         *)
C16_RemoveStripsKits ==
    [][\A t \in Tasks :
          RemoveReturns(t) =>
              \A k \in KitNames :
                  /\ task[t].arg \notin kits'[k].servers_enabled
                  /\ \A i \in DOMAIN task[t].captured :
                        ToolKey(task[t].captured[i]) \notin kits'[k].tools_enabled]_vars

-----------------------------------------------------------------------------
(* C21: add_server is all-or-nothing. When it fails, in the connection's   *)
(* initialize or in list_tools, the server map, the tool index and the     *)
(* list of pairs are what they were before the call, and the connection    *)
(* the call constructed is not reachable through                           *)
(* get_server_by_control_name.                                             *)

\* task t's add_server ends with an exception of a downstream call in this step
AddFails(t) ==
    /\ task[t].op = "add"
    /\ task[t].pc \in {"add_init", "add_list"}
    /\ task'[t].pc = "done"
    /\ task'[t].result # "ok"

C21_AddAllOrNothing ==
    [][\A t \in Tasks :
          AddFails(t) =>
              /\ rt.phase = "adding" => Registry' = rt.pre
              /\ \A n \in DOMAIN servers_map' : servers_map'[n] # task[t].server
              /\ \A i \in DOMAIN all_servers_tools' :
                    all_servers_tools'[i].server # task[t].server
              /\ \A k \in DOMAIN tools_map' : tools_map'[k].owner # task[t].server]_vars

-----------------------------------------------------------------------------
(* C22: of concurrent add-server API requests that carry the same control  *)
(* name, at most one reaches the registry's add_server and answers         *)
(* success, the others answer conflict, and the registry never holds two   *)
(* list entries for that control name. Stated by its outcome: no two such  *)
(* requests both answer 201, and the list has one pair of that name at     *)
(* most.                                                                   *)

\* tasks t and u are each in an add-server API request for the same name
SameNameApiAdds(t, u) ==
    /\ t # u
    /\ task[t].op = "add" /\ task[t].via = "api" /\ task[t].pc # "idle"
    /\ task[u].op = "add" /\ task[u].via = "api" /\ task[u].pc # "idle"
    /\ task[t].arg = task[u].arg

C22_OneOfSameNameAddsWins ==
    \A t, u \in Tasks :
        SameNameApiAdds(t, u) =>
            /\ ~(task[t].response = 201 /\ task[u].response = 201)
            /\ \A i, j \in DOMAIN all_servers_tools :
                  (/\ get_control_name(all_servers_tools[i].server) = task[t].arg
                   /\ get_control_name(all_servers_tools[j].server) = task[t].arg)
                      => i = j

-----------------------------------------------------------------------------
(* C23: a mutation that fails releases the registry lock. When an          *)
(* initialize, add_server, remove_server or shutdown call ends with an     *)
(* exception of a downstream call, the lock is free; and once a downstream *)
(* call has failed, every mutation that has been called, its downstream    *)
(* calls returning, acquires the lock and completes.                       *)

\* task t's mutation ends with an exception of a downstream call in this step
MutationFails(t) ==
    /\ InCriticalSection(t)
    /\ task'[t].pc = "done"
    /\ task'[t].result \in InitErrors \cup ListErrors \cup ShutdownErrors

\* task u's call of a mutation is waiting for the lock or inside it
MutationPending(u) == task[u].pc = "wait" \/ InCriticalSection(u)

C23_FailureReleasesLock ==
    /\ [][\A t \in Tasks : MutationFails(t) => ~locked']_vars
    /\ \A u \in Tasks :
          (~NoFailure /\ MutationPending(u)) ~> (task[u].pc = "done")

\* an add_server failed in a downstream call, and an add_server that
\* entered the lock after it has completed; the lock is free
C23_Witness ==
    \E t, u \in Tasks :
        /\ task[t].op = "add"
        /\ task[t].pc = "done"
        /\ task[t].result \in InitErrors \cup ListErrors
        /\ task[u].op = "add"
        /\ task[u].pc = "done"
        /\ task[u].result = "ok"
        /\ task[u].server > task[t].server
        /\ ~locked

-----------------------------------------------------------------------------
(* C24: whenever no mutation is in flight, every connection the registry   *)
(* exposes through get_server_by_control_name or list_all_servers_tools is *)
(* in state Initialized, also after a remove_server whose connection       *)
(* shutdown failed and after shutdown() has completed.                     *)

\* the connections a reader can obtain from the registry
Exposed ==
    {get_server_by_control_name(n) : n \in DOMAIN servers_map}
        \cup {list_all_servers_tools[i].server : i \in DOMAIN list_all_servers_tools}

C24_ExposedAreInitialized ==
    Quiescent => \A id \in Exposed : conns[id].state = "Initialized"

====
